---------------------------- MODULE Spec2Model ----------------------------
(***************************************************************************)
(* The SHL assessment recommender: the query interpreter, the scorer, the  *)
(* balancer and the recommendation pipeline of both recommenders           *)
(* (recommendation_engine.AssessmentRecommender, the vector one, and       *)
(* simple_recommender.SimpleAssessmentRecommender, the lexical one), and   *)
(* the /recommend handler of fastapi_backend.                              *)
(*                                                                         *)
(* Text is modelled character by character: a string is a sequence of      *)
(* one-character strings, so that substring tests, lower-casing, splitting *)
(* and the regular expressions of parse_query are computed, not assumed.   *)
(***************************************************************************)
EXTENDS Integers, Sequences, FiniteSets, TLC

(***************************************************************************)
(* Bounds of the model.                                                    *)
(***************************************************************************)
\* the longest query of the interpreter's specification, in phrases
MaxPhrases == 2

(***************************************************************************)
(* Characters and strings.                                                 *)
(***************************************************************************)
UpperCase == <<"A","B","C","D","E","F","G","H","I","J","K","L","M",
               "N","O","P","Q","R","S","T","U","V","W","X","Y","Z">>
LowerCase == <<"a","b","c","d","e","f","g","h","i","j","k","l","m",
               "n","o","p","q","r","s","t","u","v","w","x","y","z">>
Digits == <<"0","1","2","3","4","5","6","7","8","9">>

\* re's \s and str.split()/str.strip() on the characters the model uses
IsSpace(c) == c \in {" ", "\t", "\n"}
\* re's \d
IsDigit(c) == \E d \in 1..10 : Digits[d] = c
DigitValue(c) == (CHOOSE d \in 1..10 : Digits[d] = c) - 1

\* str.lower(), one character
LowerChar(c) ==
    IF \E i \in 1..26 : UpperCase[i] = c
    THEN LowerCase[CHOOSE i \in 1..26 : UpperCase[i] = c]
    ELSE c
\* str.lower()
RECURSIVE Lower(_)
Lower(s) ==
    IF s = <<>> THEN <<>>
    ELSE Append(Lower(SubSeq(s, 1, Len(s) - 1)), LowerChar(s[Len(s)]))

\* s[i..] starts with w  (1-based i; true for the empty w at i = Len(s)+1)
StartsAt(s, w, i) ==
    /\ i >= 1
    /\ i + Len(w) - 1 <= Len(s)
    /\ \A j \in 1..Len(w) : s[i + j - 1] = w[j]
\* Python's `w in s` on strings
Contains(s, w) == \E i \in 1..(Len(s) + 1) : StartsAt(s, w, i)

\* int() of a run of decimal digits
RECURSIVE ToInt(_)
ToInt(ds) ==
    IF ds = <<>> THEN 0
    ELSE 10 * ToInt(SubSeq(ds, 1, Len(ds) - 1)) + DigitValue(ds[Len(ds)])

\* len(s.strip()) == 0
IsBlank(s) == \A i \in 1..Len(s) : IsSpace(s[i])

\* str.split(): the maximal runs of non-space characters, in order
RECURSIVE SplitFrom(_, _)
SplitFrom(s, i) ==
    IF i > Len(s) THEN <<>>
    ELSE IF IsSpace(s[i]) THEN SplitFrom(s, i + 1)
    ELSE LET rest == {j \in i..Len(s) : IsSpace(s[j])}
             e    == IF rest = {} THEN Len(s)
                     ELSE (CHOOSE j \in rest : \A k \in rest : j <= k) - 1
         IN  <<SubSeq(s, i, e)>> \o SplitFrom(s, e + 1)
Split(s) == SplitFrom(s, 1)

(***************************************************************************)
(* The fixed vocabulary of the query interpreters.                         *)
(***************************************************************************)
w_java == <<"j","a","v","a">>
w_python == <<"p","y","t","h","o","n">>
w_sql == <<"s","q","l">>
w_javascript == <<"j","a","v","a","s","c","r","i","p","t">>
w_excel == <<"e","x","c","e","l">>
w_tableau == <<"t","a","b","l","e","a","u">>
w_leadership == <<"l","e","a","d","e","r","s","h","i","p">>
w_communication == <<"c","o","m","m","u","n","i","c","a","t","i","o","n">>
w_sales == <<"s","a","l","e","s">>
w_analytical == <<"a","n","a","l","y","t","i","c","a","l">>
w_english == <<"e","n","g","l","i","s","h">>
w_collaboration == <<"c","o","l","l","a","b","o","r","a","t","i","o","n">>
w_teamwork == <<"t","e","a","m","w","o","r","k">>
w_management == <<"m","a","n","a","g","e","m","e","n","t">>
w_marketing == <<"m","a","r","k","e","t","i","n","g">>
w_finance == <<"f","i","n","a","n","c","e">>
w_personality == <<"p","e","r","s","o","n","a","l","i","t","y">>
w_behavior == <<"b","e","h","a","v","i","o","r">>
w_cultural_fit == <<"c","u","l","t","u","r","a","l"," ","f","i","t">>
w_cultural == <<"c","u","l","t","u","r","a","l">>
w_cognitive == <<"c","o","g","n","i","t","i","v","e">>
w_reasoning == <<"r","e","a","s","o","n","i","n","g">>
w_aptitude == <<"a","p","t","i","t","u","d","e">>
w_technical == <<"t","e","c","h","n","i","c","a","l">>
w_skill == <<"s","k","i","l","l">>
w_programming == <<"p","r","o","g","r","a","m","m","i","n","g">>
w_knowledge == <<"k","n","o","w","l","e","d","g","e">>
w_minute == <<"m","i","n","u","t","e">>
w_min == <<"m","i","n">>
w_hour == <<"h","o","u","r">>
w_less_than == <<"l","e","s","s"," ","t","h","a","n"," ">>

\* the default of requirements['time_limit']
DefaultTimeLimit == 120
\* the multiplier of the hours pattern
MinutesPerHour == 60

(***************************************************************************)
(* The time patterns.  A pattern is  pre (\d+) \s* post : the literal pre, *)
(* the captured digits, optional white space, the literal post.  The       *)
(* optional final "s?" of the first three patterns matches the empty       *)
(* string wherever the rest matched, so it decides neither the match nor   *)
(* the capture and is left out of post; "less than (\d+)" has an empty     *)
(* post, which the empty run of white space followed by nothing matches.   *)
(***************************************************************************)
Rule(pre, post, multiplier) == [pre |-> pre, post |-> post, multiplier |-> multiplier]

\* the digits s[j..k] are a capture of rule r starting behind pre
CaptureOk(s, r, j, k) ==
    /\ j <= k /\ k <= Len(s)
    /\ \A d \in j..k : IsDigit(s[d])
    /\ \E m \in (k + 1)..(Len(s) + 1) :
          /\ \A b \in (k + 1)..(m - 1) : IsSpace(s[b])
          /\ StartsAt(s, r.post, m)
\* rule r matches s starting at position i
MatchAt(s, r, i) ==
    /\ StartsAt(s, r.pre, i)
    /\ i + Len(r.pre) <= Len(s)
    /\ IsDigit(s[i + Len(r.pre)])
    /\ \E k \in (i + Len(r.pre))..Len(s) : CaptureOk(s, r, i + Len(r.pre), k)
\* re.search(pattern, s) is not None
Matches(s, r) == \E i \in 1..Len(s) : MatchAt(s, r, i)
\* int(re.search(pattern, s).group(1)): the leftmost match, its greedy capture
Captured(s, r) ==
    LET i == CHOOSE i \in 1..Len(s) :
                 MatchAt(s, r, i) /\ \A h \in 1..(i - 1) : ~MatchAt(s, r, h)
        j == i + Len(r.pre)
        k == CHOOSE k \in j..Len(s) :
                 CaptureOk(s, r, j, k) /\ \A g \in (k + 1)..Len(s) : ~CaptureOk(s, r, j, g)
    IN  ToInt(SubSeq(s, j, k))

\* AssessmentRecommender.parse_query: time_patterns
time_patterns ==
    << Rule(<<>>, w_minute, 1),
       Rule(<<>>, w_min, 1),
       Rule(<<>>, w_hour, MinutesPerHour),
       Rule(w_less_than, <<>>, 1) >>
\* SimpleAssessmentRecommender.parse_query: time_patterns
Simple_time_patterns ==
    << Rule(<<>>, w_minute, 1),
       Rule(<<>>, w_min, 1),
       Rule(<<>>, w_hour, MinutesPerHour) >>

\* for pattern, multiplier in patterns: if match: time_limit = ...; break
RECURSIVE FirstMatch(_, _, _)
FirstMatch(s, patterns, n) ==
    IF n > Len(patterns) THEN DefaultTimeLimit
    ELSE IF Matches(s, patterns[n])
         THEN Captured(s, patterns[n]) * patterns[n].multiplier
         ELSE FirstMatch(s, patterns, n + 1)
ExtractTimeLimit(s, patterns) == FirstMatch(s, patterns, 1)

(***************************************************************************)
(* Skills and test types.                                                  *)
(***************************************************************************)
\* the skill vocabulary: a set in the vector recommender, a list in the
\* lexical one; both hold the same sixteen words
skill_keywords ==
    { w_java, w_python, w_sql, w_javascript, w_excel, w_tableau,
      w_leadership, w_communication, w_sales, w_analytical, w_english,
      w_collaboration, w_teamwork, w_management, w_marketing, w_finance }
Simple_skill_keywords ==
    << w_java, w_python, w_sql, w_javascript, w_excel, w_tableau,
       w_leadership, w_communication, w_sales, w_analytical, w_english,
       w_collaboration, w_teamwork, w_management, w_marketing, w_finance >>

technical_skills == {w_java, w_python, w_sql, w_javascript}
soft_skills == {w_communication, w_leadership, w_collaboration}

\* any(word in query for word in words)
AnyIn(s, words) == \E w \in words : Contains(s, w)

\* the three keyword tests of the vector recommender
KeywordTypes(s) ==
    (IF AnyIn(s, {w_personality, w_behavior, w_cultural_fit}) THEN {"P"} ELSE {})
    \cup (IF AnyIn(s, {w_cognitive, w_reasoning, w_aptitude}) THEN {"C"} ELSE {})
    \cup (IF AnyIn(s, {w_technical, w_skill, w_programming, w_knowledge}) THEN {"K"} ELSE {})
\* the three keyword tests of the lexical recommender
Simple_KeywordTypes(s) ==
    (IF AnyIn(s, {w_personality, w_behavior, w_cultural}) THEN {"P"} ELSE {})
    \cup (IF AnyIn(s, {w_cognitive, w_reasoning, w_aptitude}) THEN {"C"} ELSE {})
    \cup (IF AnyIn(s, {w_technical, w_skill, w_programming, w_knowledge}) THEN {"K"} ELSE {})

\* has_technical / has_soft and the if/elif/elif that follows them
SkillTypes(skills) ==
    LET has_technical == skills \cap technical_skills # {}
        has_soft      == skills \cap soft_skills # {}
    IN  IF has_technical /\ has_soft THEN {"K", "P"}
        ELSE IF has_technical THEN {"K"}
        ELSE IF has_soft THEN {"P"}
        ELSE {}

\* AssessmentRecommender.parse_query.  requirements['skills'] is filled by
\* iterating a set, so its order is unspecified; every reader of it makes a
\* set of it or tests membership, and the model keeps the set.
parse_query(query) ==
    LET query_lower == Lower(query)
        skills == {w \in skill_keywords : Contains(query_lower, w)}
    IN  [ skills     |-> skills,
          test_types |-> KeywordTypes(query_lower) \cup SkillTypes(skills),
          time_limit |-> ExtractTimeLimit(query_lower, time_patterns) ]

\* SimpleAssessmentRecommender.parse_query: the text is used as passed in
\* (recommend() passes query.lower()); skills is the list, in vocabulary order
Simple_parse_query(query) ==
    LET skills == SelectSeq(Simple_skill_keywords, LAMBDA w : Contains(query, w))
        skillset == {skills[i] : i \in 1..Len(skills)}
    IN  [ skills     |-> skills,
          test_types |-> Simple_KeywordTypes(query) \cup SkillTypes(skillset),
          time_limit |-> ExtractTimeLimit(query, Simple_time_patterns) ]

\* an optional value: <<>> for none, <<v>> for v
NoValue == <<>>
Some(v) == <<v>>

(***************************************************************************)
(* Sequences of records.                                                   *)
(***************************************************************************)
Min(a, b) == IF a <= b THEN a ELSE b
\* s[:n] for n >= 0
Take(s, n) == SubSeq(s, 1, Min(n, Len(s)))
\* `x in s` on a list: equality of values
InList(x, s) == \E i \in 1..Len(s) : s[i] = x
\* ' '.join(words)
RECURSIVE Join(_)
Join(words) ==
    IF words = <<>> THEN <<>>
    ELSE IF Len(words) = 1 THEN words[1]
    ELSE words[1] \o <<" ">> \o Join(Tail(words))
RECURSIVE Concat(_)
Concat(seqs) == IF seqs = <<>> THEN <<>> ELSE seqs[1] \o Concat(Tail(seqs))

(***************************************************************************)
(* The scorer.  similarity_score is the index's score; the boost of the    *)
(* vector recommender is kept as two factors in tenths (1.2 is 12, 1.3 is  *)
(* 13), so its final_score, similarity_score * boost, is in hundredths.    *)
(* The lexical recommender's final_score is its integer score.             *)
(***************************************************************************)
\* boost *= 1.3, in tenths
TypeBoostTenths == 13
\* boost = 1.0, in tenths
NoBoostTenths == 10
\* score += 3
SkillPoints == 3
\* score += 2
TypePoints == 2
\* len(word) > 3
MinWordLen == 3

\* set(assessment['skills']) & set(requirements['skills'])
matched_skills(assessment, requirements) ==
    {assessment.skills[i] : i \in 1..Len(assessment.skills)} \cap requirements.skills
\* AssessmentRecommender.calculate_boost, first factor
skill_boost(assessment, requirements) ==
    IF requirements.skills # {} /\ matched_skills(assessment, requirements) # {}
    THEN NoBoostTenths + 2 * Cardinality(matched_skills(assessment, requirements))
    ELSE NoBoostTenths
\* AssessmentRecommender.calculate_boost, second factor
type_boost(assessment, requirements) ==
    IF requirements.test_types # {} /\ assessment.test_type \in requirements.test_types
    THEN TypeBoostTenths
    ELSE NoBoostTenths
\* AssessmentRecommender.calculate_boost, in hundredths
calculate_boost(assessment, requirements) ==
    skill_boost(assessment, requirements) * type_boost(assessment, requirements)

\* f"{name} {description} {' '.join(skills)}".lower()
AssessmentText(assessment) ==
    Lower(assessment.name \o <<" ">> \o assessment.description \o <<" ">>
          \o Join(assessment.skills))
\* for word in query_lower.split(): if len(word) > 3 and word in text: score += 1
KeywordScore(query_lower, text) ==
    LET words == Split(query_lower)
    IN  Cardinality({i \in 1..Len(words) :
                        Len(words[i]) > MinWordLen /\ Contains(text, words[i])})
\* for skill in requirements['skills']: if skill in assessment['skills']: score += 3
SkillScore(assessment, requirements) ==
    SkillPoints * Cardinality({i \in 1..Len(requirements.skills) :
                                  InList(requirements.skills[i], assessment.skills)})
\* if requirements['test_types'] and test_type in requirements['test_types']: score += 2
TypeScore(assessment, requirements) ==
    IF requirements.test_types # {} /\ assessment.test_type \in requirements.test_types
    THEN TypePoints ELSE 0
\* SimpleAssessmentRecommender.recommend: the score of one assessment
Simple_score(assessment, query_lower, requirements) ==
    KeywordScore(query_lower, AssessmentText(assessment))
    + SkillScore(assessment, requirements)
    + TypeScore(assessment, requirements)

(***************************************************************************)
(* Candidates.  dict.copy() makes a new dictionary: what recommend() then  *)
(* writes goes to the copy.  An object the handler holds is modelled with  *)
(* the catalog position it aliases (0 for a fresh object), so that the     *)
(* catalog after the call is computed from the writes, not assumed.        *)
(***************************************************************************)
\* the assignment without .copy(): the handler holds the catalog's own record
dict_alias(record, idx) == [alias |-> idx, value |-> record]
\* assessment = self.assessments[idx].copy()
dict_copy(record, idx) == [alias |-> 0, value |-> record]

Scored(record, similarity_score, final_score) ==
    [ name |-> record.name, url |-> record.url, description |-> record.description,
      test_type |-> record.test_type, duration_minutes |-> record.duration_minutes,
      skills |-> record.skills,
      similarity_score |-> similarity_score, final_score |-> final_score ]
\* assessment['similarity_score'] = float(score), and nothing more
WithSimilarity(record, similarity_score) ==
    [ name |-> record.name, url |-> record.url, description |-> record.description,
      test_type |-> record.test_type, duration_minutes |-> record.duration_minutes,
      skills |-> record.skills, similarity_score |-> similarity_score ]
\* assessment_copy['final_score'] = score
WithFinal(record, final_score) ==
    [ name |-> record.name, url |-> record.url, description |-> record.description,
      test_type |-> record.test_type, duration_minutes |-> record.duration_minutes,
      skills |-> record.skills, final_score |-> final_score ]

\* the sort done as an ascending sort that is then reversed,
\* sorted(candidates, key=...)[::-1]: equal keys come out in reverse order
RECURSIVE sort_then_reverse(_)
sort_then_reverse(s) ==
    IF s = <<>> THEN <<>>
    ELSE LET sorted == sort_then_reverse(SubSeq(s, 1, Len(s) - 1))
             x      == s[Len(s)]
             n      == Cardinality({i \in 1..Len(sorted) :
                                       sorted[i].final_score > x.final_score})
         IN  SubSeq(sorted, 1, n) \o <<x>> \o SubSeq(sorted, n + 1, Len(sorted))
\* candidates.sort(key=lambda x: x['final_score'], reverse=True): list.sort is
\* stable, also with reverse=True: equal keys keep their order
RECURSIVE sort_by_final_score(_)
sort_by_final_score(s) ==
    IF s = <<>> THEN <<>>
    ELSE LET sorted == sort_by_final_score(SubSeq(s, 1, Len(s) - 1))
             x      == s[Len(s)]
             \* x goes behind every element whose score is >= its own
             n      == Cardinality({i \in 1..Len(sorted) :
                                       sorted[i].final_score >= x.final_score})
         IN  SubSeq(sorted, 1, n) \o <<x>> \o SubSeq(sorted, n + 1, Len(sorted))

(***************************************************************************)
(* The balancer.  requirements['test_types'] is a Python set of strings:   *)
(* `for test_type in requirements['test_types']` visits it in the order of *)
(* the strings' hashes, which the interpreter draws anew for every process *)
(* (hash randomisation).  type_order is that order for the process.        *)
(***************************************************************************)
TestTypes == {"K", "P", "C"}
\* the iteration order of the set `types` in a process whose order is type_order
IterationOrder(types, type_order) == SelectSeq(type_order, LAMBDA t : t \in types)

\* by_type[test_type], [] when the key is absent
by_type(candidates, test_type) ==
    SelectSeq(candidates, LAMBDA c : c.test_type = test_type)
\* for test_type in requirements['test_types']:
\*     if test_type in by_type: balanced.extend(by_type[test_type][:slots_per_type])
FirstPass(candidates, order, slots_per_type) ==
    Concat([i \in 1..Len(order) |-> Take(by_type(candidates, order[i]), slots_per_type)])
\* the same loop without its break: every candidate not yet in balanced is appended
RECURSIVE Fill_without_break(_, _, _, _)
Fill_without_break(balanced, candidates, i, top_k) ==
    IF i > Len(candidates) THEN balanced
    ELSE IF InList(candidates[i], balanced)
         THEN Fill_without_break(balanced, candidates, i + 1, top_k)
         ELSE Fill_without_break(Append(balanced, candidates[i]), candidates, i + 1, top_k)
\* for candidate in candidates: if candidate not in balanced: balanced.append(candidate)
\* until len(balanced) >= top_k
RECURSIVE Fill(_, _, _, _)
Fill(balanced, candidates, i, top_k) ==
    IF i > Len(candidates) \/ Len(balanced) >= top_k THEN balanced
    ELSE IF InList(candidates[i], balanced)
         THEN Fill(balanced, candidates, i + 1, top_k)
         ELSE Fill(Append(balanced, candidates[i]), candidates, i + 1, top_k)
\* the balancer with its body skipped: return candidates
balance_skipped(candidates, requirements, top_k, type_order) == candidates
\* the balancer with the slice applied on its early return as well:
\* return candidates[:top_k]
balance_sliced(candidates, requirements, top_k, type_order) ==
    IF Cardinality(requirements.test_types) > 1
    THEN LET balanced == FirstPass(candidates,
                                   IterationOrder(requirements.test_types, type_order),
                                   top_k \div Cardinality(requirements.test_types))
         IN  IF top_k - Len(balanced) > 0 THEN Fill(balanced, candidates, 1, top_k)
             ELSE balanced
    ELSE Take(candidates, top_k)
\* AssessmentRecommender.balance_recommendations
balance_recommendations(candidates, requirements, top_k, type_order) ==
    IF Cardinality(requirements.test_types) > 1
    THEN LET order == IterationOrder(requirements.test_types, type_order)
             slots_per_type == top_k \div Cardinality(requirements.test_types)
             balanced == FirstPass(candidates, order, slots_per_type)
             remaining == top_k - Len(balanced)
         IN  IF remaining > 0 THEN Fill(balanced, candidates, 1, top_k) ELSE balanced
    ELSE candidates
\* for candidate in candidates:
\*     if candidate not in balanced and remaining > 0: append; remaining -= 1
RECURSIVE Simple_Fill(_, _, _, _)
Simple_Fill(balanced, candidates, i, remaining) ==
    IF i > Len(candidates) THEN balanced
    ELSE IF ~InList(candidates[i], balanced) /\ remaining > 0
         THEN Simple_Fill(Append(balanced, candidates[i]), candidates, i + 1, remaining - 1)
         ELSE Simple_Fill(balanced, candidates, i + 1, remaining)
\* SimpleAssessmentRecommender.balance_recommendations
Simple_balance_recommendations(candidates, requirements, top_k, type_order) ==
    IF Cardinality(requirements.test_types) <= 1 THEN candidates
    ELSE LET order == IterationOrder(requirements.test_types, type_order)
             slots_per_type == top_k \div Cardinality(requirements.test_types)
             balanced == FirstPass(candidates, order, slots_per_type)
         IN  Simple_Fill(balanced, candidates, 1, top_k - Len(balanced))

(***************************************************************************)
(* The query texts the pipeline is called with, and what the interpreters  *)
(* make of each: parse_query is tabulated over them, so that a call looks  *)
(* its requirements up instead of scanning the text again.  The texts: the *)
(* empty one, white space only, two that name no skill, test type or time  *)
(* (one of them with a number), and three that ask for one, two and three  *)
(* test types.                                                             *)
(***************************************************************************)
PipelineQueries ==
    { <<>>,
      <<" ", " ">>,
      <<"n","u","r","s","e"," ","t","e","s","t">>,
      <<"t","e","a","m"," ","5"," ","l","e","a","d">>,
      <<"S","Q","L">>,
      <<"s","q","l"," ","l","e","a","d","e","r","s","h","i","p"," ","3","0"," ","m","i","n">>,
      <<"s","q","l"," ","b","e","h","a","v","i","o","r"," ","a","p","t","i","t","u","d","e">> }
\* the requests the /recommend handler is sent: the empty query, white space
\* only, and a query with text
ApiQueries == { <<>>, <<" ", " ">>, <<"S","Q","L">> }
\* the queries of a run that is repeated: one, and three, test types
RunQueries ==
    { <<"S","Q","L">>,
      <<"s","q","l"," ","b","e","h","a","v","i","o","r"," ","a","p","t","i","t","u","d","e">> }
KnownQueries == PipelineQueries \cup ApiQueries \cup RunQueries

ParseTable == {<<q, parse_query(q)>> : q \in KnownQueries}
\* self.parse_query(query) of the vector recommender
Requirements(query) == (CHOOSE p \in ParseTable : p[1] = query)[2]
Simple_ParseTable == {<<q, Lower(q), Simple_parse_query(Lower(q))>> : q \in KnownQueries}
\* query.lower() and self.parse_query(query_lower) of the lexical recommender
Simple_Lowered(query) == (CHOOSE p \in Simple_ParseTable : p[1] = query)[2]
Simple_Requirements(query) == (CHOOSE p \in Simple_ParseTable : p[1] = query)[3]

(***************************************************************************)
(* recommend().  Both return what the handler computed on the way, for the *)
(* properties that speak of it, and the catalog as the call leaves it.     *)
(***************************************************************************)
\* k = min(50, len(self.assessments))
IndexK == 50

\* if assessment['duration_minutes'] <= time_limit:   (the vector recommender)
within_time_limit(assessment, time_limit) == assessment.duration_minutes <= time_limit
\* if assessment['duration_minutes'] > time_limit: continue   (the lexical one)
Simple_over_time_limit(assessment, time_limit) == assessment.duration_minutes > time_limit

\* the same statement testing the argument's truth, `if not time_limit`, or
\* time_limit = time_limit or requirements.get(...): 0 counts as absent
time_limit_or_parsed(time_limit, requirements) ==
    IF time_limit = NoValue \/ time_limit[1] = 0
    THEN requirements.time_limit
    ELSE time_limit[1]
\* the same statement without its condition: the argument is overwritten
parsed_time_limit_only(time_limit, requirements) == requirements.time_limit
\* if time_limit is None: time_limit = requirements.get('time_limit', 120)
EffectiveTimeLimit(time_limit, requirements) ==
    IF time_limit = NoValue THEN requirements.time_limit ELSE time_limit[1]

\* the catalog after the loop: position i holds what was written to an object
\* that is the catalog's own i-th record, and is as before otherwise
CatalogAfter(assessments, objects) ==
    [i \in 1..Len(assessments) |->
        IF \E o \in 1..Len(objects) : objects[o].alias = i
        THEN objects[CHOOSE o \in 1..Len(objects) : objects[o].alias = i].value
        ELSE assessments[i]]
\* the objects the loop appended, in the order it appended them
Appended(objects) ==
    LET kept == SelectSeq(objects, LAMBDA o : o.kept)
    IN  [n \in 1..Len(kept) |-> kept[n].value]

\* what recommend() hands back to the model: its return value, what it
\* computed on the way, and the catalog as it leaves it
Computed(requirements, time_limit, candidates, balanced, result, catalog) ==
    [ requirements |-> requirements, time_limit |-> time_limit,
      candidates |-> candidates, balanced |-> balanced, result |-> result,
      assessments |-> catalog ]

(***************************************************************************)
(* AssessmentRecommender.recommend, statement by statement: each operator  *)
(* is one statement and passes what it computed on to the rest.            *)
(***************************************************************************)
\* the return without the slice: return balanced_results
recommend_return_unsliced(requirements, top_k, time_limit, candidates, balanced, catalog) ==
    Computed(requirements, time_limit, candidates, balanced, balanced, catalog)
\* return balanced_results[:top_k]
recommend_return(requirements, top_k, time_limit, candidates, balanced, catalog) ==
    Computed(requirements, time_limit, candidates, balanced, Take(balanced, top_k), catalog)
\* balanced_results = self.balance_recommendations(candidates, requirements, top_k)
recommend_balance(requirements, top_k, time_limit, candidates, catalog, type_order) ==
    recommend_return(requirements, top_k, time_limit, candidates,
                     balance_recommendations(candidates, requirements, top_k, type_order),
                     catalog)
\* candidates.sort(key=lambda x: x['final_score'], reverse=True)
recommend_sort(assessments, requirements, top_k, time_limit, objects, type_order) ==
    recommend_balance(requirements, top_k, time_limit,
                      sort_by_final_score(Appended(objects)),
                      CatalogAfter(assessments, objects), type_order)
\* the body of `for score, idx in zip(scores[0], indices[0])` on one hit
recommend_hit(assessments, requirements, time_limit, h) ==
    IF within_time_limit(assessments[h.idx], time_limit)
    THEN [ alias |-> dict_copy(assessments[h.idx], h.idx).alias,
           kept  |-> TRUE,
           value |-> Scored(dict_copy(assessments[h.idx], h.idx).value, h.score,
                            h.score * calculate_boost(assessments[h.idx], requirements)) ]
    ELSE [ alias |-> dict_copy(assessments[h.idx], h.idx).alias,
           kept  |-> FALSE,
           value |-> WithSimilarity(dict_copy(assessments[h.idx], h.idx).value, h.score) ]
\* the loop over the hits
recommend_filter(assessments, requirements, top_k, time_limit, hits, type_order) ==
    recommend_sort(assessments, requirements, top_k, time_limit,
                   [n \in 1..Len(hits) |->
                       recommend_hit(assessments, requirements, time_limit, hits[n])],
                   type_order)
\* if time_limit is None: time_limit = requirements.get('time_limit', 120)
recommend_time_limit(assessments, requirements, top_k, time_limit, hits, type_order) ==
    recommend_filter(assessments, requirements, top_k,
                     EffectiveTimeLimit(time_limit, requirements), hits, type_order)
\* AssessmentRecommender.recommend; hits is what self.index.search returned,
\* zip(scores[0], indices[0])
recommend(assessments, query, top_k, time_limit, hits, type_order) ==
    recommend_time_limit(assessments, Requirements(query), top_k, time_limit, hits,
                         type_order)

(***************************************************************************)
(* SimpleAssessmentRecommender.recommend, in the same way.                 *)
(***************************************************************************)
\* return scored[:top_k]
Simple_recommend_return(requirements, top_k, time_limit, scored, balanced, catalog) ==
    Computed(requirements, time_limit, scored, balanced, Take(balanced, top_k), catalog)
\* if len(requirements['test_types']) > 1: scored = self.balance_recommendations(...)
Simple_recommend_balance(requirements, top_k, time_limit, scored, catalog, type_order) ==
    Simple_recommend_return(requirements, top_k, time_limit, scored,
        IF Cardinality(requirements.test_types) > 1
        THEN Simple_balance_recommendations(scored, requirements, top_k, type_order)
        ELSE scored,
        catalog)
\* scored.sort(key=lambda x: x['final_score'], reverse=True)
Simple_recommend_sort(assessments, requirements, top_k, time_limit, objects, type_order) ==
    Simple_recommend_balance(requirements, top_k, time_limit,
                             sort_by_final_score(Appended(objects)),
                             CatalogAfter(assessments, objects), type_order)
\* if score > 0: assessment_copy = assessment.copy(); ...; scored.append(...)
Simple_recommend_append(assessment, idx, score) ==
    IF score > 0
    THEN [ alias |-> dict_copy(assessment, idx).alias,
           kept  |-> TRUE,
           value |-> WithFinal(dict_copy(assessment, idx).value, score) ]
    ELSE [ alias |-> 0, kept |-> FALSE, value |-> assessment ]
\* the body of `for assessment in self.assessments`
Simple_recommend_one(assessment, idx, query_lower, requirements, time_limit) ==
    IF Simple_over_time_limit(assessment, time_limit)
    THEN [ alias |-> 0, kept |-> FALSE, value |-> assessment ]
    ELSE Simple_recommend_append(assessment, idx,
                                 Simple_score(assessment, query_lower, requirements))
\* the loop over the catalog
Simple_recommend_score(assessments, query_lower, requirements, top_k, time_limit, type_order) ==
    Simple_recommend_sort(assessments, requirements, top_k, time_limit,
        [i \in 1..Len(assessments) |->
            Simple_recommend_one(assessments[i], i, query_lower, requirements, time_limit)],
        type_order)
\* if time_limit is None: time_limit = requirements.get('time_limit', 120)
Simple_recommend_time_limit(assessments, query_lower, requirements, top_k, time_limit, type_order) ==
    Simple_recommend_score(assessments, query_lower, requirements, top_k,
                           EffectiveTimeLimit(time_limit, requirements), type_order)
\* SimpleAssessmentRecommender.recommend
Simple_recommend(assessments, query, top_k, time_limit, type_order) ==
    Simple_recommend_time_limit(assessments, Simple_Lowered(query),
                                Simple_Requirements(query), top_k, time_limit, type_order)

(***************************************************************************)
(* The inputs of the pipeline's specification.                             *)
(***************************************************************************)
\* the longest catalog
MaxCatalog == 3
\* the largest top_k
MaxTopK == 3

Assessment(name, url, test_type, duration_minutes, skills) ==
    [ name |-> name, url |-> url, description |-> <<>>, test_type |-> test_type,
      duration_minutes |-> duration_minutes, skills |-> skills ]

\* a catalog file; its first two records are the same record twice, and its
\* last record has the url of the first under another name
MasterCatalog ==
    << Assessment(<<"S","Q","L"," ","t","e","s","t">>, "u1", "K", 20, <<w_sql>>),
       Assessment(<<"S","Q","L"," ","t","e","s","t">>, "u1", "K", 20, <<w_sql>>),
       Assessment(<<"t","e","a","m"," ","l","e","a","d">>, "u3", "P", 45, <<w_leadership>>),
       Assessment(w_aptitude, "u4", "C", 90, <<>>),
       Assessment(<<"S","Q","L"," ","q","u","i","z">>, "u1", "K", 30, <<w_sql>>) >>

\* the catalogs: the non-empty selections of at most MaxCatalog records of
\* MasterCatalog, in its order
Catalogs ==
    LET picks == {p \in SUBSET (1..Len(MasterCatalog)) :
                     p # {} /\ Cardinality(p) <= MaxCatalog}
        pick(p) == SelectSeq([i \in 1..Len(MasterCatalog) |-> [i |-> i, a |-> MasterCatalog[i]]],
                             LAMBDA e : e.i \in p)
    IN  {[n \in 1..Len(pick(p)) |-> pick(p)[n].a] : p \in picks}

\* the orders in which a process may iterate a set of test types
TypeOrders ==
    {o \in [1..3 -> TestTypes] : \A i, j \in 1..3 : i # j => o[i] # o[j]}

\* the time_limit argument: None, or minutes
TimeLimits == {NoValue, Some(0), Some(60)}
\* the scores the index gives
SimScores == {1, 2}

\* what self.index.search(query_embedding, k) may return for a catalog of n
\* records: k hits on distinct records, by descending score
Hits(n) ==
    LET k == Min(IndexK, n)
    IN  {h \in [1..k -> [idx : 1..n, score : SimScores]] :
            /\ \A i, j \in 1..k : i # j => h[i].idx # h[j].idx
            /\ \A i \in 1..(k - 1) : h[i].score >= h[i + 1].score}

(***************************************************************************)
(* The query texts of the interpreter's specification: every               *)
(* concatenation of at most MaxPhrases phrases.                            *)
(***************************************************************************)
Phrases ==
    { <<"3","0"," ","m","i","n","u","t","e","s"," ">>,
      <<"4","5"," ","M","i","n","s"," ">>,
      <<"2","h","o","u","r","s"," ">>,
      <<"l","e","s","s"," ","t","h","a","n"," ">>,
      <<"1","5"," ">>,
      <<"J","a","v","a">>,
      <<"s","c","r","i","p","t"," ">>,
      <<"c","u","l","t","u","r","a","l"," ">>,
      <<"f","i","t"," ">>,
      <<"a","p","t","i","t","u","d","e"," ">>,
      <<"l","e","a","d","e","r","s","h","i","p"," ">>,
      <<"s","k","i","l","l","s"," ">>,
      <<"n","u","r","s","e"," ">> }

RECURSIVE Texts(_)
Texts(n) ==
    IF n = 0 THEN {<<>>}
    ELSE LET shorter == Texts(n - 1)
         IN  shorter \cup {t \o p : t \in shorter, p \in Phrases}
ParseQueries == Texts(MaxPhrases)

(***************************************************************************)
(* The state.                                                              *)
(***************************************************************************)
VARIABLES
    variant,      \* which recommender the process built: "vector" or "lexical"
    assessments,  \* self.assessments, the catalog
    type_order,   \* the process's iteration order of sets of test types
    pc,           \* "idle"; "done": a call has returned and is not yet consumed;
                  \* "replayed": a remembered call was made again
    call,         \* the arguments of the call, NoValue when idle
    out,          \* what the call computed and returned, NoValue when idle
    prev,         \* a call remembered with its result, NoValue when none is
    pquery,       \* the text handed to the query interpreters
    preqs         \* what each interpreter returned for it, NoValue before it ran

vars == <<variant, assessments, type_order, pc, call, out, prev, pquery, preqs>>
procvars == <<variant, assessments, type_order, pc, call, out, prev>>

\* __init__: json.load of the catalog file; the interpreter fixes the hash order
Startup(catalogs) ==
    /\ variant \in {"vector", "lexical"}
    /\ assessments \in catalogs
    /\ type_order \in TypeOrders
    /\ pc = "idle"
    /\ call = NoValue
    /\ out = NoValue
    /\ prev = NoValue

NoParse ==
    /\ pquery = <<>>
    /\ preqs = [vector |-> NoValue, lexical |-> NoValue]

Init == Startup(Catalogs) /\ NoParse

Arguments(via, query, top_k, time_limit, hits) ==
    [via |-> via, query |-> query, top_k |-> top_k, time_limit |-> time_limit, hits |-> hits]
\* what a call that returned a list leaves behind
Returned(outcome, status_code, r) ==
    [ outcome |-> outcome, status_code |-> status_code,
      requirements |-> r.requirements, time_limit |-> r.time_limit,
      candidates |-> r.candidates, balanced |-> r.balanced, result |-> r.result ]
\* what a call that raised leaves behind
Raised(outcome, status_code) ==
    [ outcome |-> outcome, status_code |-> status_code ]

\* the call returns: the caller holds what it returned, the catalog is as the
\* call left it
Returns(arguments, outcome, status_code, r) ==
    /\ call' = Some(arguments)
    /\ out' = Some(Returned(outcome, status_code, r))
    /\ assessments' = r.assessments
\* the call raises: nothing was computed
Raises(arguments, outcome, status_code) ==
    /\ call' = Some(arguments)
    /\ out' = Some(Raised(outcome, status_code))
    /\ UNCHANGED assessments

\* a call of AssessmentRecommender.recommend
CallVector(queries) ==
    /\ pc = "idle" /\ variant = "vector"
    /\ \E hits \in Hits(Len(assessments)), query \in queries,
          top_k \in 0..MaxTopK, time_limit \in TimeLimits :
          Returns(Arguments("recommend", query, top_k, time_limit, hits), "list", 0,
                  recommend(assessments, query, top_k, time_limit, hits, type_order))
    /\ pc' = "done"
    /\ UNCHANGED <<variant, type_order, prev, pquery, preqs>>

\* a call of SimpleAssessmentRecommender.recommend
CallLexical(queries) ==
    /\ pc = "idle" /\ variant = "lexical"
    /\ \E query \in queries, top_k \in 0..MaxTopK, time_limit \in TimeLimits :
          Returns(Arguments("recommend", query, top_k, time_limit, <<>>), "list", 0,
                  Simple_recommend(assessments, query, top_k, time_limit, type_order))
    /\ pc' = "done"
    /\ UNCHANGED <<variant, type_order, prev, pquery, preqs>>

Recommend == CallVector(PipelineQueries)
SimpleRecommend == CallLexical(PipelineQueries)

(***************************************************************************)
(* fastapi_backend.recommend_assessments.  An exception is a value: the    *)
(* try body either returns or raises one, and the except clause catches    *)
(* what is an instance of Exception.  fastapi.HTTPException is one.        *)
(***************************************************************************)
ExceptionClasses == {"Exception", "HTTPException"}

\* if not request.query or len(request.query.strip()) == 0
EmptyQuery(query) == query = <<>> \/ IsBlank(query)
\* max_results = min(max(request.max_results, 1), 10)
ClampResults(max_results) ==
    LET atleast == IF max_results >= 1 THEN max_results ELSE 1
    IN  Min(atleast, 10)

\* the try body: what it raises, "" when it runs to its return
TryBody(query) ==
    IF EmptyQuery(query)
    THEN [raised |-> "HTTPException", status_code |-> 400]
    ELSE [raised |-> "", status_code |-> 200]
\* except Exception as e: raise HTTPException(status_code=500, ...)
Handler(body) ==
    IF body.raised \in ExceptionClasses
    THEN [raised |-> "HTTPException", status_code |-> 500]
    ELSE body

\* POST /recommend; the module builds recommendation_engine.AssessmentRecommender
Endpoint ==
    /\ pc = "idle" /\ variant = "vector"
    /\ \E hits \in Hits(Len(assessments)), query \in ApiQueries,
          max_results \in 0..MaxTopK, time_limit \in TimeLimits :
          LET end == Handler(TryBody(query))
              arguments == Arguments("endpoint", query, ClampResults(max_results),
                                     time_limit, hits)
          IN  IF end.raised = ""
              THEN Returns(arguments, "response", end.status_code,
                           recommend(assessments, query, ClampResults(max_results),
                                     time_limit, hits, type_order))
              ELSE Raises(arguments, end.raised, end.status_code)
    /\ pc' = "done"
    /\ UNCHANGED <<variant, type_order, prev, pquery, preqs>>

\* the caller takes the result; the recommender is ready for the next call
Return ==
    /\ pc = "done"
    /\ pc' = "idle"
    /\ call' = NoValue
    /\ out' = NoValue
    /\ UNCHANGED <<variant, assessments, type_order, prev, pquery, preqs>>

Next == Recommend \/ SimpleRecommend \/ Endpoint \/ Return
Spec == Init /\ [][Next]_vars

(***************************************************************************)
(* A run that is repeated: a call is made and remembered with its result,  *)
(* and the same call is made again, by the same process or by a new one    *)
(* over the same catalog file (generate_predictions.py run twice, the      *)
(* server restarted).  A new process has a hash order of its own.          *)
(***************************************************************************)
RunVector == prev = NoValue /\ CallVector(RunQueries)
RunLexical == prev = NoValue /\ CallLexical(RunQueries)

Remember ==
    /\ pc = "done" /\ prev = NoValue
    /\ prev' = Some([call |-> call[1], result |-> out[1].result])
    /\ pc' = "idle"
    /\ call' = NoValue
    /\ out' = NoValue
    /\ UNCHANGED <<variant, assessments, type_order, pquery, preqs>>

\* the process ends and a new one starts on the same catalog file
Restart ==
    /\ pc = "idle" /\ prev # NoValue
    /\ type_order' \in TypeOrders \ {type_order}
    /\ UNCHANGED <<variant, assessments, pc, call, out, prev, pquery, preqs>>

\* the remembered call, made again with the same arguments and the same hits
ReplayVector ==
    /\ pc = "idle" /\ prev # NoValue /\ variant = "vector"
    /\ Returns(prev[1].call, "list", 0,
               recommend(assessments, prev[1].call.query, prev[1].call.top_k,
                         prev[1].call.time_limit, prev[1].call.hits, type_order))
    /\ pc' = "replayed"
    /\ UNCHANGED <<variant, type_order, prev, pquery, preqs>>
ReplayLexical ==
    /\ pc = "idle" /\ prev # NoValue /\ variant = "lexical"
    /\ Returns(prev[1].call, "list", 0,
               Simple_recommend(assessments, prev[1].call.query, prev[1].call.top_k,
                                prev[1].call.time_limit, type_order))
    /\ pc' = "replayed"
    /\ UNCHANGED <<variant, type_order, prev, pquery, preqs>>

RunsNext == RunVector \/ RunLexical \/ Remember \/ Restart \/ ReplayVector \/ ReplayLexical
SpecRuns == Init /\ [][RunsNext]_vars

(***************************************************************************)
(* The specification of the query interpreters alone.                      *)
(***************************************************************************)
ParseInit ==
    /\ pquery \in ParseQueries
    /\ preqs = [vector |-> NoValue, lexical |-> NoValue]
    /\ variant = "vector"
    /\ assessments = <<>>
    /\ type_order = <<"K", "P", "C">>
    /\ pc = "idle"
    /\ call = NoValue
    /\ out = NoValue
    /\ prev = NoValue

\* requirements = self.parse_query(query)   (recommendation_engine.py:60)
ParseVector ==
    /\ preqs.vector = NoValue
    /\ preqs' = [preqs EXCEPT !.vector = Some(parse_query(pquery))]
    /\ UNCHANGED <<pquery, procvars>>

\* query_lower = query.lower(); requirements = self.parse_query(query_lower)
\* (simple_recommender.py:14-15)
ParseLexical ==
    /\ preqs.lexical = NoValue
    /\ preqs' = [preqs EXCEPT !.lexical = Some(Simple_parse_query(Lower(pquery)))]
    /\ UNCHANGED <<pquery, procvars>>

ParseNext == ParseVector \/ ParseLexical
SpecParse == ParseInit /\ [][ParseNext]_vars

(***************************************************************************)
(* Properties of a call that has returned.                                 *)
(***************************************************************************)
\* the call returned a list to its caller
Listed == pc = "done" /\ out[1].outcome \in {"list", "response"}
\* the explicit time_limit if one was passed, otherwise the parsed one
EffectiveLimit ==
    IF call[1].time_limit = NoValue
    THEN out[1].requirements.time_limit
    ELSE call[1].time_limit[1]
\* the catalog positions that pass the time filter
Survivors ==
    {i \in 1..Len(assessments) : assessments[i].duration_minutes <= EffectiveLimit}
RequiredTypes == out[1].requirements.test_types
\* top_k // n, for n >= 1 required types
Share == call[1].top_k \div Cardinality(RequiredTypes)
OfType(s, t) == Cardinality({i \in 1..Len(s) : s[i].test_type = t})
SurvivorsOfType(t) == Cardinality({i \in Survivors : assessments[i].test_type = t})

\* C1: every assessment in the list recommend() returns has duration_minutes
\* <= the effective time limit (the explicit time_limit if one was passed,
\* otherwise the one parsed from the query), in both recommenders and after
\* sorting, balancing and truncation
TimeLimitRespected ==
    Listed => \A i \in 1..Len(out[1].result) :
                  out[1].result[i].duration_minutes <= EffectiveLimit
\* a parsed limit below the default excluded a catalog entry from a balanced,
\* non-empty result
TimeLimitExcludes ==
    /\ Listed
    /\ call[1].time_limit = NoValue
    /\ out[1].requirements.time_limit < DefaultTimeLimit
    /\ Cardinality(RequiredTypes) > 1
    /\ out[1].result # <<>>
    /\ \E i \in 1..Len(assessments) : assessments[i].duration_minutes > EffectiveLimit

\* C2: the list recommend() returns is no longer than top_k and no longer
\* than the number of candidates that passed the time filter, whether or not
\* the balancer ran
ResultBounded ==
    Listed => /\ Len(out[1].result) <= call[1].top_k
              /\ Len(out[1].result) <= Cardinality(Survivors)
\* the balancer ran and the result is top_k >= 1 of more candidates
ResultTruncated ==
    /\ Listed
    /\ Cardinality(RequiredTypes) > 1
    /\ call[1].top_k >= 1
    /\ Len(out[1].candidates) > call[1].top_k
    /\ Len(out[1].result) = call[1].top_k

\* C3: when n >= 2 test types are required and at least top_k // n entries of
\* each of them pass the time filter, the returned list holds at least
\* top_k // n entries of each required type
BalancedShare ==
    ( /\ Listed
      /\ Cardinality(RequiredTypes) >= 2
      /\ \A t \in RequiredTypes : SurvivorsOfType(t) >= Share )
    => \A t \in RequiredTypes : OfType(out[1].result, t) >= Share
\* top_k is not a multiple of n, every required type has its share of at
\* least one, and the balancer moved a candidate up
ShareServed ==
    /\ Listed
    /\ Cardinality(RequiredTypes) >= 2
    /\ Share >= 1
    /\ call[1].top_k % Cardinality(RequiredTypes) # 0
    /\ \A t \in RequiredTypes : SurvivorsOfType(t) >= Share
    /\ out[1].balanced # out[1].candidates

\* C4: two calls with the same query, top_k and time_limit against the same
\* catalog and the same backend results return the same assessments in the
\* same order
RepeatedCallAgrees ==
    pc = "replayed" => out[1].result = prev[1].result

\* a client-input error: an exception, which the endpoint reports as status 400
InvalidInput(o) ==
    /\ o.outcome \notin {"list", "response"}
    /\ call[1].via = "endpoint" => o.status_code = 400
\* C5: a request whose query is empty or only whitespace ends in a client-input
\* error (for the endpoint: status 400), never in a list or another error
BlankQueryRejected ==
    (pc = "done" /\ EmptyQuery(call[1].query)) => InvalidInput(out[1])

\* requirements['skills'] as a set
RequiredSkills ==
    IF variant = "vector" THEN out[1].requirements.skills
    ELSE {out[1].requirements.skills[i] : i \in 1..Len(out[1].requirements.skills)}
\* the score before the boosts: the index's score, or the number of query
\* words found in the assessment's text
BaseScore(c) ==
    IF variant = "vector" THEN c.similarity_score
    ELSE KeywordScore(Lower(call[1].query), AssessmentText(c))
\* final_score in hundredths
FinalHundredths(c) ==
    IF variant = "vector" THEN c.final_score ELSE 100 * c.final_score
\* skill_boost x type_boost, in hundredths
ProductOfBoosts(c) ==
    (10 + 2 * Cardinality({c.skills[i] : i \in 1..Len(c.skills)} \cap RequiredSkills))
    * (IF c.test_type \in RequiredTypes THEN 13 ELSE 10)
\* C6: final_score = similarity_score x skill_boost x type_boost with
\* skill_boost = 1 + 0.2 x |candidate.skills \cap requirements.skills| and
\* type_boost = 1.3 for a required test type, 1 otherwise, in both recommenders
MultiplicativeScore ==
    Listed => \A i \in 1..Len(out[1].candidates) :
                  FinalHundredths(out[1].candidates[i])
                      = BaseScore(out[1].candidates[i])
                        * ProductOfBoosts(out[1].candidates[i])

TypeKeywords ==
    { w_personality, w_behavior, w_cultural_fit, w_cognitive, w_reasoning,
      w_aptitude, w_technical, w_skill, w_programming, w_knowledge }
\* the queries without a time pattern, a vocabulary skill or a type keyword
PlainQueries ==
    {q \in KnownQueries :
        /\ \A n \in 1..Len(time_patterns) : ~Matches(Lower(q), time_patterns[n])
        /\ ~AnyIn(Lower(q), skill_keywords)
        /\ ~AnyIn(Lower(q), TypeKeywords)}
\* C8: for a query with no recognized time pattern, no vocabulary skill and no
\* test-type keyword, parse_query returns time_limit 120 and no test types,
\* and balance_recommendations returns the sorted candidates unchanged
PlainQueryUntouched ==
    (Listed /\ variant = "vector" /\ call[1].query \in PlainQueries)
    => /\ out[1].requirements.time_limit = 120
       /\ out[1].requirements.test_types = {}
       /\ out[1].balanced = out[1].candidates
\* a query of words alone ranked more candidates than were asked for
PlainQueryRanked ==
    /\ Listed /\ variant = "vector"
    /\ call[1].query \in PlainQueries /\ ~EmptyQuery(call[1].query)
    /\ call[1].top_k >= 1
    /\ Len(out[1].candidates) > call[1].top_k
    /\ out[1].candidates[1].final_score > out[1].candidates[2].final_score

(***************************************************************************)
(* Properties of the query interpreters.                                   *)
(***************************************************************************)
Interpreters == {"vector", "lexical"}

\* the ordered list of four rules
FourRules ==
    << Rule(<<>>, w_minute, 1), Rule(<<>>, w_min, 1),
       Rule(<<>>, w_hour, 60), Rule(w_less_than, <<>>, 1) >>
\* the number the first matching rule of the list captures, times its multiplier
FirstRuleLimit(s) ==
    LET matching == {n \in 1..Len(FourRules) : Matches(s, FourRules[n])}
        first    == CHOOSE n \in matching : \A m \in matching : n <= m
    IN  IF matching = {} THEN 120
        ELSE Captured(s, FourRules[first]) * FourRules[first].multiplier
\* C9: every query interpreter sets time_limit from the first rule, in the
\* order "<N> minutes", "<N> mins", "<N> hours" (x60), "less than <N>", that
\* matches anywhere in the lower-cased query, and 120 when none matches
SameFourRules ==
    \A which \in Interpreters :
        preqs[which] # NoValue
        => preqs[which][1].time_limit = FirstRuleLimit(Lower(pquery))

\* the types the keyword groups signal
GroupTypes(s) ==
    (IF AnyIn(s, {w_personality, w_behavior, w_cultural_fit}) THEN {"P"} ELSE {})
    \cup (IF AnyIn(s, {w_cognitive, w_reasoning, w_aptitude}) THEN {"C"} ELSE {})
    \cup (IF AnyIn(s, {w_technical, w_skill, w_programming, w_knowledge}) THEN {"K"} ELSE {})
\* the types inferred from the skills found in the query
ExtractedSkillTypes(s) ==
    (IF AnyIn(s, {w_java, w_python, w_sql, w_javascript}) THEN {"K"} ELSE {})
    \cup (IF AnyIn(s, {w_communication, w_leadership, w_collaboration}) THEN {"P"} ELSE {})
\* C10: test_types is the union of the types of the keyword groups
\* (personality/behavior/cultural fit: P; cognitive/reasoning/aptitude: C;
\* technical/skill/programming/knowledge: K) and the types of the extracted
\* skills (java/python/sql/javascript: K; communication/leadership/
\* collaboration: P)
TypesAreUnion ==
    \A which \in Interpreters :
        preqs[which] # NoValue
        => preqs[which][1].test_types
               = GroupTypes(Lower(pquery)) \cup ExtractedSkillTypes(Lower(pquery))

(***************************************************************************)
(* Properties of the steps of a call.                                      *)
(***************************************************************************)
\* candidate c is record a of the catalog with its scores added
SameRecord(c, a) ==
    /\ c.name = a.name /\ c.url = a.url /\ c.description = a.description
    /\ c.test_type = a.test_type /\ c.duration_minutes = a.duration_minutes
    /\ c.skills = a.skills
\* the number of places a candidate can come from: the hits of the index, or
\* the records of the catalog that the lexical recommender scans
Origins == IF variant = "vector" THEN Len(call[1].hits) ELSE Len(assessments)
\* candidate c is what the n-th place gave
CameFrom(c, n) ==
    IF variant = "vector"
    THEN /\ SameRecord(c, assessments[call[1].hits[n].idx])
         /\ call[1].hits[n].score = c.similarity_score
    ELSE SameRecord(c, assessments[n])
\* the ways to say which place each sorted candidate came from
Tracings ==
    {f \in [1..Len(out[1].candidates) -> 1..Origins] :
        /\ \A i, j \in 1..Len(out[1].candidates) : i # j => f[i] # f[j]
        /\ \A i \in 1..Len(out[1].candidates) : CameFrom(out[1].candidates[i], f[i])}

\* C11: after the sort step the candidates are in non-increasing final_score
\* order, and candidates with equal final_score are in the order in which the
\* index returned them (the catalog scan, in the lexical recommender)
StableDescending ==
    Listed =>
        /\ \A i, j \in 1..Len(out[1].candidates) :
               i < j => out[1].candidates[i].final_score
                            >= out[1].candidates[j].final_score
        /\ \E f \in Tracings :
               \A i, j \in 1..Len(out[1].candidates) :
                   ( /\ i < j
                     /\ out[1].candidates[i].final_score
                            = out[1].candidates[j].final_score )
                   => f[i] < f[j]
\* the index returned two different records with equal final scores against
\* their order in the catalog, and a third candidate scored higher
TieKeepsIndexOrder ==
    /\ Listed /\ variant = "vector"
    /\ Len(out[1].candidates) >= 3
    /\ out[1].candidates[1].final_score > out[1].candidates[2].final_score
    /\ \E f \in Tracings : \E i, j \in 1..Len(out[1].candidates) :
           /\ i < j
           /\ out[1].candidates[i] # out[1].candidates[j]
           /\ out[1].candidates[i].final_score = out[1].candidates[j].final_score
           /\ f[i] < f[j]
           /\ call[1].hits[f[i]].idx > call[1].hits[f[j]].idx

\* the records the filter lets through under a limit: the hits of the index
\* on records within it, or the catalog records within it
Within(limit) ==
    IF variant = "vector"
    THEN {n \in 1..Len(call[1].hits) :
             assessments[call[1].hits[n].idx].duration_minutes <= limit}
    ELSE {i \in 1..Len(assessments) : assessments[i].duration_minutes <= limit}

\* C12: an explicit time_limit, whatever the query text says and also when it
\* is 0, is alone the limit the filter uses; the limit parsed from the query is
\* used only when the argument is absent
ExplicitLimitAlone ==
    Listed =>
        IF call[1].time_limit = NoValue
        THEN out[1].time_limit = out[1].requirements.time_limit
        ELSE /\ out[1].time_limit = call[1].time_limit[1]
             /\ \A i \in 1..Len(out[1].candidates) :
                    out[1].candidates[i].duration_minutes <= call[1].time_limit[1]
             \* nothing within the explicit limit is filtered out: the vector
             \* recommender keeps every hit, the lexical one every record of a
             \* required type (its score is at least 2)
             /\ variant = "vector"
                => Len(out[1].candidates) = Cardinality(Within(call[1].time_limit[1]))
             /\ variant = "lexical"
                => \A n \in Within(call[1].time_limit[1]) :
                       assessments[n].test_type \in RequiredTypes
                       => \E i \in 1..Len(out[1].candidates) :
                              SameRecord(out[1].candidates[i], assessments[n])
\* an explicit limit above the one in the query text let a record through
\* that the text's limit would have excluded
ExplicitLimitWidens ==
    /\ Listed
    /\ call[1].time_limit # NoValue
    /\ call[1].time_limit[1] > out[1].requirements.time_limit
    /\ out[1].requirements.time_limit < DefaultTimeLimit
    /\ \E i \in 1..Len(out[1].result) :
           out[1].result[i].duration_minutes > out[1].requirements.time_limit

(***************************************************************************)
(* Properties of the balancer.  out[1].balanced is what                    *)
(* balance_recommendations returned when the call invoked it: always in    *)
(* the vector recommender, for more than one required type in the lexical. *)
(***************************************************************************)
BalancerRan ==
    Listed /\ (variant = "vector" \/ Cardinality(RequiredTypes) > 1)

\* C13, as stated: the sequence balance_recommendations returns is no longer
\* than top_k, for more than one required test type and for at most one
BalancedWithinTopK ==
    BalancerRan => Len(out[1].balanced) <= call[1].top_k
\* C13, amended: the sequence balance_recommendations returns is no longer
\* than top_k when more than one test type is required; for at most one it is
\* the candidate list unchanged, of whatever length
BalancedWithinTopKOrUntouched ==
    BalancerRan =>
        IF Cardinality(RequiredTypes) > 1
        THEN Len(out[1].balanced) <= call[1].top_k
        ELSE out[1].balanced = out[1].candidates
\* more than one type is required, the first pass left slots free and the
\* fill pass stopped at top_k with candidates left over
FillStoppedAtTopK ==
    /\ BalancerRan
    /\ Cardinality(RequiredTypes) > 1
    /\ call[1].top_k % Cardinality(RequiredTypes) # 0
    /\ Len(out[1].balanced) = call[1].top_k
    /\ Len(out[1].candidates) > call[1].top_k

\* the sorted candidates the balancer was given, by position
CandidatePlaces == 1..Len(out[1].candidates)
\* the places the first pass takes: of each required type, the first
\* top_k // n candidates of that type
FirstPlaces ==
    {i \in CandidatePlaces :
        /\ out[1].candidates[i].test_type \in RequiredTypes
        /\ Cardinality({j \in 1..(i - 1) :
               out[1].candidates[j].test_type = out[1].candidates[i].test_type}) < Share}
\* where a type comes in the iteration order of the set of required types
TypePlace(t) == CHOOSE k \in 1..Len(type_order) : type_order[k] = t
\* place i is taken before place j in the first pass
TakenBefore(i, j) ==
    \/ TypePlace(out[1].candidates[i].test_type) < TypePlace(out[1].candidates[j].test_type)
    \/ out[1].candidates[i].test_type = out[1].candidates[j].test_type /\ i < j
\* the places the fill pass takes: the first places not yet taken, until the
\* result has top_k entries
FillPlaces ==
    {i \in CandidatePlaces \ FirstPlaces :
        Cardinality({j \in CandidatePlaces \ FirstPlaces : j < i})
            < call[1].top_k - Cardinality(FirstPlaces)}
\* the place of the k-th entry of the result
PlaceOf(k) ==
    IF k <= Cardinality(FirstPlaces)
    THEN CHOOSE i \in FirstPlaces :
             Cardinality({j \in FirstPlaces : TakenBefore(j, i)}) = k - 1
    ELSE CHOOSE i \in FillPlaces :
             Cardinality({j \in FillPlaces : j < i}) = k - Cardinality(FirstPlaces) - 1

\* C14: for more than one required type balance_recommendations returns, for
\* each required type in iteration order, the first top_k // n candidates of
\* that type, then the candidates not yet included, in sorted order, until the
\* result has top_k entries or the list is exhausted: exactly
\* min(top_k, number of candidates) entries
BalancedAsDescribed ==
    (BalancerRan /\ Cardinality(RequiredTypes) > 1) =>
        /\ Len(out[1].balanced) = Cardinality(FirstPlaces) + Cardinality(FillPlaces)
        /\ \A k \in 1..Len(out[1].balanced) :
               out[1].balanced[k] = out[1].candidates[PlaceOf(k)]
        /\ Len(out[1].balanced) = Min(call[1].top_k, Len(out[1].candidates))

\* C15: in the fill pass a candidate counts as included exactly when one with
\* the same url is in the result: the returned list never holds two entries
\* with the same url, and a candidate is left out of a result with free slots
\* only if its url is in it
IncludedByUrl ==
    (BalancerRan /\ Cardinality(RequiredTypes) > 1) =>
        /\ \A i, j \in 1..Len(out[1].balanced) :
               i # j => out[1].balanced[i].url # out[1].balanced[j].url
        /\ Len(out[1].balanced) < call[1].top_k
           => \A i \in CandidatePlaces :
                  \E k \in 1..Len(out[1].balanced) :
                      out[1].balanced[k].url = out[1].candidates[i].url

\* the skills a lexical interpretation lists, as a set
ListedSkills(requirements) ==
    {requirements.skills[i] : i \in 1..Len(requirements.skills)}
\* C16: for every query text the two parse_query functions return the same
\* time_limit, the same set of skills and the same test_types
InterpretersAgree ==
    (preqs.vector # NoValue /\ preqs.lexical # NoValue) =>
        /\ preqs.vector[1].time_limit = preqs.lexical[1].time_limit
        /\ preqs.vector[1].skills = ListedSkills(preqs.lexical[1])
        /\ preqs.vector[1].test_types = preqs.lexical[1].test_types

=============================================================================
